---------------------------- MODULE Spec2Model ----------------------------
(***************************************************************************)
(* YamuxStream (src/muxer/yamux/yamux_stream.cpp): the per-stream state    *)
(* machine of the Yamux multiplexer.  One stream object, its client, its   *)
(* session (YamuxStreamFeedback) and the session's deferred-call queue.    *)
(*                                                                         *)
(* The handlers of the class call each other (close -> doWrite -> doClose  *)
(* -> closeCompleted -> client callback -> reset ...), so every method is  *)
(* an operator from a world record to a world record, and an action is     *)
(* the whole handler applied to the current world:                         *)
(*   w.s  the fields of the YamuxStream object                             *)
(*   w.e  the session side: deferCall queue, frames asked for, routing     *)
(*   w.h  history: callbacks posted and fired, bytes on the wire           *)
(***************************************************************************)
EXTENDS Integers, Sequences, FiniteSets, TLC

VARIABLES stream, session, history

vars == <<stream, session, history>>

(* ------------------------------ bounds --------------------------------- *)

\* maximum_window_size of the stream under study; the stream is built with
\* window_size = maximum_window_size, as the session builds it
MaxWindow == 2
\* write_queue_limit - maximum_window_size (the constructor asserts >= 0)
QueueSlack == 1
\* client callbacks posted in one run (read, write, close, adjustWindowSize)
MaxCb == 2
\* bytes the peer sends in one run, and the longest DATA frame
MaxIn == 3
MaxChunk == 2
\* longest read / write the client posts
MaxLen == 2
\* send credit the peer ever lets the window grow to
MaxCredit == 3
\* callbacks of one handler after which a callback may re-enter reset()
MaxFuse == 2

maximum_window_size == MaxWindow
write_queue_limit == maximum_window_size + QueueSlack

(* --------------------------- error taxonomy ---------------------------- *)

NONE == "NONE"
SUCCESS == "SUCCESS"
INVALID_ARGUMENT == "INVALID_ARGUMENT"
STREAM_IS_READING == "STREAM_IS_READING"
STREAM_NOT_READABLE == "STREAM_NOT_READABLE"
STREAM_NOT_WRITABLE == "STREAM_NOT_WRITABLE"
STREAM_WRITE_BUFFER_OVERFLOW == "STREAM_WRITE_BUFFER_OVERFLOW"
INVALID_WINDOW_SIZE == "INVALID_WINDOW_SIZE"
RECEIVE_WINDOW_OVERFLOW == "RECEIVE_WINDOW_OVERFLOW"
STREAM_CLOSED_BY_HOST == "STREAM_CLOSED_BY_HOST"
STREAM_RESET_BY_HOST == "STREAM_RESET_BY_HOST"
STREAM_RESET_BY_PEER == "STREAM_RESET_BY_PEER"
INTERNAL_ERROR == "INTERNAL_ERROR"
\* a session-level error passed through closedByConnection
CONNECTION_ERROR == "CONNECTION_ERROR"

\* DataFromConnectionResult
kKeepStream == "KEEP"
kRemoveStream == "REMOVE"
kRemoveStreamAndSendRst == "REMOVE_AND_SEND_RST"

\* an empty std::function / no callback
NoCb == 0

\* what a callback is handed: outcome::success() (with the byte count of a
\* read) or an error code
Ok(n) == [ec |-> SUCCESS, n |-> n]
Err(ec) == [ec |-> ec, n |-> 0]

Min(a, b) == IF a < b THEN a ELSE b

RECURSIVE SumSeq(_)
SumSeq(q) == IF q = <<>> THEN 0 ELSE Head(q) + SumSeq(Tail(q))

(* ------------------------- client callbacks ---------------------------- *)

\* The client hands a fresh callback with every operation: its id is its
\* position in history.posted, which keeps what was asked and the stream's
\* close_reason at that moment (and whether a read met the stream half-closed
\* for reading, with nothing parked and too little buffered to serve it).
NewCb(w, kind, n, some) ==
  [w EXCEPT !.h.posted = Append(@, [kind |-> kind, n |-> n, some |-> some,
                                    reason |-> w.s.close_reason,
                                    half |-> kind = "read" /\ n > 0
                                               /\ w.s.close_reason = NONE
                                               /\ ~w.s.is_readable
                                               /\ ~w.s.is_reading
                                               /\ Len(w.s.internal_read_buffer) < n
                                               /\ ~(some /\ Len(w.s.internal_read_buffer) > 0),
                                    accepted |-> FALSE,
                                    touched |-> FALSE,
                                    k |-> 0, wire |-> 0, start |-> 0,
                                    data |-> <<>>])]

LastCb(w) == Len(w.h.posted)

(* ------------------------------ reset ---------------------------------- *)

reset(w) ==
  [w EXCEPT !.s.is_readable = FALSE,
            !.s.is_writable = FALSE,
            !.s.no_more_callbacks = TRUE,
            !.s.close_reason = STREAM_RESET_BY_HOST,
            !.s.write_queue = <<>>,
            !.s.internal_read_buffer = <<>>,
            !.s.read_cb = NoCb,
            !.s.window_size_cb = NoCb,
            !.s.window_new_size = 0,
            !.s.close_cb = NoCb,
            !.e.rst = TRUE,
            !.e.routed = FALSE,
            !.h.reset_called = TRUE]

\* cb(res): the client's callback runs now.  It is logged with whether a
\* client-invoked method is on the stack and whether reset() was called
\* before; the callback itself may call reset() (the fuse picks which one).
Fire(w, cb, res) ==
  IF cb = NoCb THEN [w EXCEPT !.h.bad_call = TRUE]
  ELSE LET w1 == [w EXCEPT !.h.fired = Append(@, [cb |-> cb, res |-> res,
                                                   sync |-> w.h.in_client,
                                                   late |-> w.h.reset_called]),
                           !.h.fuse = IF @ > 0 THEN @ - 1 ELSE 0]
       IN IF w.h.fuse = 1 THEN reset(w1) ELSE w1

(* --------------------------- deferred calls ---------------------------- *)

deferCall(w, fn) == [w EXCEPT !.e.deferred = Append(@, fn)]

deferReadCallback(w, res, cb) ==
  IF w.s.no_more_callbacks THEN w
  ELSE deferCall(w, [kind |-> "read", cb |-> cb, res |-> res])

deferWriteCallback(w, ec, cb) ==
  IF w.s.no_more_callbacks THEN w
  ELSE deferCall(w, [kind |-> "write", cb |-> cb, res |-> ec])

isClosed(w) == w.s.close_reason # NONE

(* ------------------------------- close --------------------------------- *)

closeCompleted(w) ==
  LET w1 == IF w.s.close_reason = NONE
            THEN [w EXCEPT !.s.close_reason = STREAM_CLOSED_BY_HOST] ELSE w
  IN IF w1.s.close_cb # NoCb
     THEN LET cb == w1.s.close_cb
              w2 == [w1 EXCEPT !.s.close_cb = NoCb]
          IN Fire(w2, cb, IF w2.s.close_reason = STREAM_CLOSED_BY_HOST
                          THEN Ok(0) ELSE Err(w2.s.close_reason))
     ELSE w1

\* WriteQueue::broadcast with doClose's predicate: each remaining item's
\* callback gets close_reason; the iteration stops once no_more_callbacks.
RECURSIVE broadcast(_, _)
broadcast(w, items) ==
  IF items = <<>> THEN w
  ELSE LET w1 == IF ~w.s.no_more_callbacks
                 THEN Fire(w, Head(items).cb, Err(w.s.close_reason)) ELSE w
       IN IF ~w1.s.no_more_callbacks THEN broadcast(w1, Tail(items)) ELSE w1

\* doClose up to the close callback: the reason, the flags, the parked read
doCloseNotify(w, ec, notify_read_callback) ==
  LET w1 == [w EXCEPT !.s.close_reason = ec,
                      !.s.is_readable = FALSE,
                      !.s.is_writable = FALSE]
      w2 == IF notify_read_callback
            THEN LET a == [w1 EXCEPT !.s.internal_read_buffer = <<>>]
                 IN IF a.s.is_reading
                    THEN LET b == [a EXCEPT !.s.is_reading = FALSE,
                                            !.s.read_cb = NoCb]
                         IN IF ~b.s.no_more_callbacks
                            THEN Fire(b, a.s.read_cb, Err(ec)) ELSE b
                    ELSE a
            ELSE w1
  IN IF w2.s.close_cb # NoCb THEN closeCompleted(w2) ELSE w2

\* doClose that broadcasts the reason and leaves the items in the queue
doClose_KeepsQueue(w, ec, notify_read_callback) ==
  LET w3 == doCloseNotify(w, ec, notify_read_callback)
  IN IF ~w3.s.no_more_callbacks
     THEN broadcast(w3, w3.s.write_queue)
     ELSE w3

doClose(w, ec, notify_read_callback) ==
  LET w3 == doCloseNotify(w, ec, notify_read_callback)
  IN IF ~w3.s.no_more_callbacks
     THEN [broadcast(w3, w3.s.write_queue) EXCEPT !.s.write_queue = <<>>]
     ELSE w3


(* ----------------------------- WriteQueue ------------------------------ *)
\* An item is [cb, size, sent, acked]: sent bytes were dequeued (handed to
\* the session), acked bytes were reported written; acked <= sent <= size.
\* The some flag of an item only travels with its chunks to writeStreamData,
\* of which the model keeps the lengths.

Pending(q) == SumSeq([i \in 1..Len(q) |-> q[i].size - q[i].acked])

InFlight(q) == SumSeq([i \in 1..Len(q) |-> q[i].sent - q[i].acked])

canEnqueue(q, n) == Pending(q) + n <= write_queue_limit

enqueue(q, n, some, cb) ==
  Append(q, [cb |-> cb, size |-> n, sent |-> 0, acked |-> 0])

FirstUnsent(q) ==
  IF \E i \in 1..Len(q) : q[i].sent < q[i].size
  THEN CHOOSE i \in 1..Len(q) :
         q[i].sent < q[i].size /\ \A j \in 1..(i - 1) : q[j].sent = q[j].size
  ELSE 0

\* dequeue(window_size, out data, out some) -> remaining window
dequeue(q, credit) ==
  LET i == FirstUnsent(q)
  IN IF i = 0 \/ credit = 0
     THEN [queue |-> q, credit |-> credit, len |-> 0]
     ELSE LET c == Min(credit, q[i].size - q[i].sent)
          IN [queue |-> [q EXCEPT ![i].sent = @ + c],
              credit |-> credit - c, len |-> c]

\* ack(n): advance the acked cursor over the head items, fire the callback
\* of every item fully acked; false when n exceeds the bytes in flight.
RECURSIVE ackLoop(_, _)
ackLoop(w, n) ==
  LET q == w.s.write_queue
  IN IF n = 0 \/ q = <<>> THEN w
     ELSE LET a == Min(n, q[1].sent - q[1].acked)
              it == [q[1] EXCEPT !.acked = @ + a]
          IN IF it.acked = it.size
             THEN ackLoop(Fire([w EXCEPT !.s.write_queue = Tail(q)],
                               it.cb, Ok(0)), n - a)
             ELSE [w EXCEPT !.s.write_queue = <<it>> \o Tail(q)]

ack(w, n) ==
  IF n > InFlight(w.s.write_queue) THEN [ok |-> FALSE, w |-> w]
  ELSE [ok |-> TRUE, w |-> ackLoop([w EXCEPT !.h.acked = @ + n], n)]

(* ------------------------------ doWrite -------------------------------- *)

RECURSIVE drain(_)
drain(w) ==
  IF w.s.close_reason # NONE THEN w
  ELSE LET d == dequeue(w.s.write_queue, w.s.send_window_size)
           w1 == [w EXCEPT !.s.send_window_size = d.credit,
                           !.s.write_queue = d.queue]
       IN IF d.len = 0 THEN w1
          ELSE drain([w1 EXCEPT !.e.written = @ + d.len,
                                !.h.after_fin = @ \/ (w1.e.fin > 0)])

doWrite(w) ==
  LET w1 == drain(w)
  IN IF ~w1.s.is_writable /\ w1.s.close_reason = NONE
        /\ w1.s.send_window_size > 0
     THEN LET w2 == [w1 EXCEPT !.e.fin = @ + 1]
          IN IF ~w2.s.is_readable
             THEN doClose(w2, STREAM_CLOSED_BY_HOST, FALSE)
             ELSE [w2 EXCEPT !.s.receive_window_size = maximum_window_size]
     ELSE w1

\* doWrite(in, bytes, cb, some)
doWriteIn(w, insz, bytes, cb, some) ==
  IF bytes = 0 \/ insz = 0 \/ insz < bytes
  THEN deferWriteCallback(w, Err(INVALID_ARGUMENT), cb)
  ELSE IF ~w.s.is_writable
  THEN deferWriteCallback(w, Err(STREAM_NOT_WRITABLE), cb)
  ELSE IF w.s.close_reason # NONE
  THEN deferWriteCallback(w, Err(w.s.close_reason), cb)
  ELSE IF ~canEnqueue(w.s.write_queue, bytes)
  THEN deferWriteCallback(w, Err(STREAM_WRITE_BUFFER_OVERFLOW), cb)
  ELSE doWrite([w EXCEPT !.s.write_queue = enqueue(@, bytes, some, cb),
                         !.h.posted[cb].accepted = TRUE])

close(w, cb) ==
  LET w1 == [w EXCEPT !.s.close_cb = cb, !.h.close_called = TRUE]
  IN IF isClosed(w1)
     THEN IF w1.s.close_cb # NoCb
          THEN deferCall(w1, [kind |-> "close", cb |-> NoCb, res |-> Err(NONE)])
          ELSE w1
     ELSE IF w1.s.is_writable
          THEN doWrite([w1 EXCEPT !.s.is_writable = FALSE])
          ELSE w1

\* increaseSendWindow that adds the credit and does not resume doWrite
increaseSendWindow_NoResume(w, delta) ==
  [w EXCEPT !.s.send_window_size = @ + delta, !.h.credit = @ + delta]

increaseSendWindow(w, delta) ==
  doWrite([w EXCEPT !.s.send_window_size = @ + delta, !.h.credit = @ + delta])

(* ----------------------------- ReadBuffer ------------------------------ *)
\* A byte FIFO.  The bytes of the inbound stream are numbered 1, 2, 3, ... in
\* wire order, so a byte's value is its position on the wire.

add(buf, bytes) == buf \o bytes

\* consume(dest): up to len bytes leave the head of the buffer for dest
consume(buf, len) ==
  LET n == Min(len, Len(buf))
  IN [n |-> n, data |-> SubSeq(buf, 1, n), rest |-> SubSeq(buf, n + 1, Len(buf))]

addAndConsume(buf, bytes, len) == consume(add(buf, bytes), len)

\* the client's memory mem after data was copied to offset off of it
Store(mem, off, data) ==
  [i \in 1..Len(mem) |->
     IF i > off /\ i <= off + Len(data) THEN data[i - off] ELSE mem[i]]

(* ------------------------------ doRead --------------------------------- *)

doRead(w, outsz, bytes, cb, some) ==
  IF bytes = 0 \/ outsz = 0 \/ outsz < bytes
  THEN deferReadCallback(w, Err(INVALID_ARGUMENT), cb)
  ELSE
  LET buf == w.s.internal_read_buffer
      bytes_available_now == Len(buf)
  IN IF bytes_available_now >= bytes \/ (some /\ bytes_available_now > 0)
     THEN LET c == consume(buf, bytes)
              consumed == c.n
              w1 == [w EXCEPT
                       !.s.internal_read_buffer = c.rest,
                       !.e.acks = IF w.s.is_readable THEN @ + consumed ELSE @,
                       !.h.posted[cb].data = c.data,
                       !.h.posted[cb].start = w.h.handed,
                       !.h.handed = @ + consumed]
          IN deferReadCallback(w1, Ok(consumed), cb)
     ELSE IF w.s.close_reason # NONE
     THEN deferReadCallback(w, Err(w.s.close_reason), cb)
     ELSE IF w.s.is_reading
     THEN deferReadCallback(w, Err(STREAM_IS_READING), cb)
     ELSE IF ~w.s.is_readable
     THEN \* the stored slot read_cb_ is moved into the call, not cb
          deferReadCallback([w EXCEPT !.s.read_cb = NoCb],
                            Err(STREAM_NOT_READABLE), w.s.read_cb)
     ELSE [w EXCEPT
             !.s.is_reading = TRUE,
             !.s.read_cb = cb,
             !.s.read_message_size = bytes,
             !.s.reading_some = some,
             !.s.external_read_buffer = [off |-> 0, len |-> bytes],
             \* consume(external_read_buffer_): the buffered bytes go to the
             \* front of the target; the span itself is not advanced
             !.s.out = Store([i \in 1..bytes |-> 0], 0, consume(buf, bytes).data),
             !.s.internal_read_buffer = consume(buf, bytes).rest,
             !.h.posted[cb].k = bytes_available_now,
             !.h.posted[cb].wire = w.h.wire,
             !.h.posted[cb].accepted = TRUE]

readCompleted(w) ==
  IF w.s.is_reading
  THEN LET read_message_size == w.s.read_message_size
           w1 == [w EXCEPT !.s.is_reading = FALSE,
                           !.s.read_message_size = 0,
                           !.s.reading_some = FALSE]
       IN IF w1.s.read_cb # NoCb
          THEN LET cb == w1.s.read_cb
                   w2 == [w1 EXCEPT
                            !.s.read_cb = NoCb,
                            !.h.posted[cb].data =
                               SubSeq(w.s.out, 1, Min(read_message_size, Len(w.s.out))),
                            !.h.posted[cb].start = w.h.handed,
                            !.h.handed = @ + read_message_size]
               IN Fire(w2, cb, Ok(read_message_size))
          ELSE w1
  ELSE w

(* ----------------------------- onDataRead ------------------------------ *)

Return(w, r) ==
  [w EXCEPT !.h.last_ret = r,
            !.e.routed = IF r = kKeepStream THEN @ ELSE FALSE]

onDataRead(w, sz, fin, rst) ==
  LET bytes == [i \in 1..sz |-> w.h.wire + i]
      w0 == [w EXCEPT !.h.wire = @ + sz]
      t == IF sz > 0
           THEN IF w0.s.is_reading
                THEN LET ext == w0.s.external_read_buffer
                         c == addAndConsume(w0.s.internal_read_buffer, bytes, ext.len)
                         bytes_consumed == c.n
                         a == [w0 EXCEPT
                                 !.s.internal_read_buffer = c.rest,
                                 !.s.out = Store(@, ext.off, c.data),
                                 !.s.external_read_buffer =
                                    [off |-> ext.off + bytes_consumed,
                                     len |-> ext.len - bytes_consumed]]
                         b == IF a.s.reading_some
                              THEN [a EXCEPT !.s.read_message_size = bytes_consumed]
                              ELSE a
                         read_completed ==
                            a.s.external_read_buffer.len = 0 \/ a.s.reading_some
                     IN [w |-> IF read_completed THEN readCompleted(b) ELSE b,
                         bytes_consumed |-> bytes_consumed]
                ELSE [w |-> [w0 EXCEPT !.s.internal_read_buffer = add(@, bytes)],
                      bytes_consumed |-> 0]
           ELSE [w |-> w0, bytes_consumed |-> 0]
      w1 == t.w
      overflow == sz > 0
                  /\ w1.s.receive_window_size
                       < Len(w1.s.internal_read_buffer) + w1.s.external_read_buffer.len
      \* history only: a data frame without flags left more bytes in the
      \* buffer of the open stream than receive_window_size_
      held == sz > 0 /\ ~fin /\ ~rst /\ ~isClosed(w) /\ w.s.is_readable
              /\ Len(w1.s.internal_read_buffer) > w1.s.receive_window_size
      Note(x) == IF held
                 THEN [x EXCEPT !.h.over = [hit |-> TRUE,
                                            reason |-> x.s.close_reason,
                                            ret |-> x.h.last_ret]]
                 ELSE x
  IN Note(
     IF isClosed(w1) THEN Return(w1, kRemoveStreamAndSendRst)
     ELSE IF rst
     THEN Return(doClose(w1, STREAM_RESET_BY_PEER, FALSE), kRemoveStream)
     ELSE IF fin
     THEN LET w2 == [w1 EXCEPT !.s.is_readable = FALSE, !.h.fin_received = TRUE]
          IN IF ~w2.s.is_writable
             THEN Return(doClose(w2, STREAM_CLOSED_BY_HOST, FALSE), kRemoveStream)
             ELSE Return(w2, kKeepStream)
     ELSE IF overflow
     THEN Return(doClose(w1, RECEIVE_WINDOW_OVERFLOW, FALSE), kRemoveStreamAndSendRst)
     ELSE IF t.bytes_consumed > 0
     THEN Return([w1 EXCEPT !.e.acks = @ + t.bytes_consumed,
                            !.s.receive_window_size = @ + t.bytes_consumed],
                 kKeepStream)
     ELSE Return(w1, kKeepStream))

\* onDataWritten that sends the RST and closes without telling anyone
onDataWritten_Silent(w, bytes) ==
  LET r == ack([w EXCEPT !.h.ackd = [n |-> bytes,
                                     inflight |-> InFlight(w.s.write_queue)]],
               bytes)
  IN IF ~r.ok
     THEN [r.w EXCEPT !.e.rst = TRUE, !.e.routed = FALSE,
                      !.s.close_reason = INTERNAL_ERROR,
                      !.s.is_readable = FALSE, !.s.is_writable = FALSE,
                      !.s.write_queue = <<>>]
     ELSE r.w

\* (history keeps the argument and the bytes in flight when it was called)
onDataWritten(w, bytes) ==
  LET r == ack([w EXCEPT !.h.ackd = [n |-> bytes,
                                     inflight |-> InFlight(w.s.write_queue)]],
               bytes)
  IN IF ~r.ok
     THEN doClose([r.w EXCEPT !.e.rst = TRUE, !.e.routed = FALSE],
                  INTERNAL_ERROR, TRUE)
     ELSE r.w

\* closedByConnection that records the reason and leaves the flags alone
closedByConnection_ReasonOnly(w, ec) ==
  [w EXCEPT !.s.close_reason = ec, !.e.routed = FALSE]

closedByConnection(w, ec) == doClose([w EXCEPT !.e.routed = FALSE], ec, TRUE)

(* -------------------------- adjustWindowSize --------------------------- *)

adjustWindowSize(w, new_size, cb) ==
  IF w.s.close_reason # NONE \/ new_size > maximum_window_size
     \/ new_size < w.s.receive_window_size
  THEN IF cb # NoCb
       THEN deferCall(w, [kind |-> "window", cb |-> cb, res |-> Err(NONE)])
       ELSE w
  ELSE LET w1 == [w EXCEPT !.e.acks = @ + (new_size - w.s.receive_window_size)]
       IN IF cb # NoCb
          THEN [w1 EXCEPT !.s.window_size_cb = cb,
                          !.s.window_new_size = new_size,
                          !.h.posted[cb].accepted = TRUE]
          ELSE w1

\* one closure handed to deferCall runs (the stream is still alive)
runDeferred(w, fn) ==
  IF fn.kind = "close" THEN closeCompleted(w)
  ELSE IF fn.kind = "window"
  THEN Fire(w, fn.cb, IF w.s.close_reason = NONE
                      THEN Err(INVALID_WINDOW_SIZE) ELSE Err(w.s.close_reason))
  ELSE IF ~w.s.no_more_callbacks THEN Fire(w, fn.cb, fn.res) ELSE w


(* ------------------------------- state --------------------------------- *)

\* YamuxStream::YamuxStream with window_size <= maximum_window_size
InitStream(window_size) ==
  [send_window_size |-> window_size,
   receive_window_size |-> window_size,
   is_readable |-> TRUE,
   is_writable |-> TRUE,
   is_reading |-> FALSE,
   reading_some |-> FALSE,
   no_more_callbacks |-> FALSE,
   close_reason |-> NONE,
   internal_read_buffer |-> <<>>,
   external_read_buffer |-> [off |-> 0, len |-> 0],
   out |-> <<>>,
   read_message_size |-> 0,
   read_cb |-> NoCb,
   close_cb |-> NoCb,
   window_size_cb |-> NoCb,
   window_new_size |-> 0,
   write_queue |-> <<>>]

InitSession ==
  [deferred |-> <<>>, written |-> 0, fin |-> 0, rst |-> FALSE, acks |-> 0,
   routed |-> TRUE]

InitHistory ==
  [posted |-> <<>>, fired |-> <<>>, wire |-> 0, handed |-> 0, acked |-> 0,
   last_ret |-> kKeepStream, fuse |-> 0, in_client |-> FALSE,
   reset_called |-> FALSE, bad_call |-> FALSE, close_called |-> FALSE,
   fin_received |-> FALSE, after_fin |-> FALSE,
   credit |-> 0, ackd |-> [n |-> 0, inflight |-> 0],
   over |-> [hit |-> FALSE, reason |-> NONE, ret |-> kKeepStream]]

Init ==
  /\ stream = InitStream(maximum_window_size)
  /\ session = InitSession
  /\ history = InitHistory

W == [s |-> stream, e |-> session, h |-> history]

\* a client-invoked method starts / returns; a session-invoked one likewise
Enter(f) == [W EXCEPT !.h.in_client = TRUE, !.h.fuse = f,
                      !.h.ackd = [n |-> 0, inflight |-> 0]]
EnterSession(f) == [W EXCEPT !.h.fuse = f, !.h.ackd = [n |-> 0, inflight |-> 0]]
Leave(w) == [w EXCEPT !.h.in_client = FALSE, !.h.fuse = 0]

\* whether the operation that posted cb changed the stream object (the
\* close_cb slot aside, which is how close registers its delivery)
Touch(w0, w1, cb) ==
  [w1 EXCEPT !.h.posted[cb].touched =
     ([w1.s EXCEPT !.close_cb = w0.s.close_cb] # w0.s)]

Commit(w) ==
  /\ stream' = w.s
  /\ session' = w.e
  /\ history' = w.h

\* (size of the span, bytes asked): the valid pairs and the three invalid shapes
ArgPairs == {p \in (0..MaxLen) \X (0..MaxLen) : p[1] = p[2] \/ p[1] + 1 = p[2]}

Valid(outsz, bytes) == ~(bytes = 0 \/ outsz = 0 \/ outsz < bytes)

(* ------------------------------ actions -------------------------------- *)

Read(outsz, bytes, some) ==
  /\ Len(history.posted) < MaxCb
  /\ LET w0 == NewCb(Enter(0), "read", IF Valid(outsz, bytes) THEN bytes ELSE 0,
                     Valid(outsz, bytes) /\ some)
         cb == LastCb(w0)
     IN Commit(Leave(Touch(w0, doRead(w0, outsz, bytes, cb, some), cb)))

Write(insz, bytes, some) ==
  /\ Len(history.posted) < MaxCb
  /\ LET w0 == NewCb(Enter(0), "write", IF Valid(insz, bytes) THEN bytes ELSE 0,
                     FALSE)
         cb == LastCb(w0)
     IN Commit(Leave(Touch(w0, doWriteIn(w0, insz, bytes, cb, some), cb)))

Close(f) ==
  /\ Len(history.posted) < MaxCb
  /\ LET w0 == NewCb(Enter(f), "close", 0, FALSE)
         cb == LastCb(w0)
     IN Commit(Leave(Touch(w0, close(w0, cb), cb)))

\* close() with an empty handler
CloseNoCb(f) == Commit(Leave(close(Enter(f), NoCb)))

Reset == Commit(Leave(reset(Enter(0))))

AdjustWindowSize(new_size) ==
  /\ Len(history.posted) < MaxCb
  /\ session.acks <= MaxIn
  /\ LET w0 == NewCb(Enter(0), "window", new_size, FALSE)
         cb == LastCb(w0)
     IN Commit(Leave(Touch(w0, adjustWindowSize(w0, new_size, cb), cb)))

AdjustWindowSizeNoCb(new_size) ==
  /\ session.acks <= MaxIn
  /\ Commit(Leave(adjustWindowSize(Enter(0), new_size, NoCb)))

OnDataRead(sz, fin, rst, f) ==
  /\ session.routed
  /\ history.wire + sz <= MaxIn
  /\ Commit(Leave(onDataRead(EnterSession(f), sz, fin, rst)))

OnDataWritten(bytes, f) ==
  /\ session.routed
  /\ Commit(Leave(onDataWritten(EnterSession(f), bytes)))

OnSendWindowIncrease(delta, f) ==
  /\ session.routed
  /\ stream.send_window_size + delta <= MaxCredit
  /\ Commit(Leave(increaseSendWindow(EnterSession(f), delta)))

ClosedByConnection(f) ==
  /\ session.routed
  /\ Commit(Leave(closedByConnection(EnterSession(f), CONNECTION_ERROR)))

RunDeferred ==
  /\ session.deferred # <<>>
  /\ LET w0 == [EnterSession(0) EXCEPT !.e.deferred = Tail(@)]
     IN Commit(Leave(runDeferred(w0, Head(session.deferred))))

Next ==
  \/ \E p \in ArgPairs, some \in BOOLEAN : Read(p[1], p[2], some)
  \/ \E p \in ArgPairs, some \in BOOLEAN : Write(p[1], p[2], some)
  \/ \E f \in 0..MaxFuse : Close(f)
  \/ \E f \in 0..MaxFuse : CloseNoCb(f)
  \/ Reset
  \/ \E new_size \in 0..(maximum_window_size + 1) : AdjustWindowSize(new_size)
  \/ \E new_size \in 0..(maximum_window_size + 1) : AdjustWindowSizeNoCb(new_size)
  \/ \E sz \in 0..MaxChunk, fin \in BOOLEAN, rst \in BOOLEAN, f \in 0..MaxFuse :
        OnDataRead(sz, fin, rst, f)
  \/ \E bytes \in 1..MaxLen, f \in 0..MaxFuse : OnDataWritten(bytes, f)
  \/ \E delta \in 1..MaxChunk, f \in 0..MaxFuse : OnSendWindowIncrease(delta, f)
  \/ \E f \in 0..MaxFuse : ClosedByConnection(f)
  \/ RunDeferred

Spec == Init /\ [][Next]_vars

\* The write and shutdown path: every handler that touches write_queue_,
\* is_writable_ or close_cb_, or can fire a write or close callback.  read,
\* readSome and adjustWindowSize touch none of these; the frames of the peer
\* carry their flags only (what DATA does is the read path's).
NextWrite ==
  \/ \E n \in 1..MaxLen, some \in BOOLEAN : Write(n, n, some)
  \/ \E f \in 0..MaxFuse : Close(f)
  \/ \E f \in 0..MaxFuse : CloseNoCb(f)
  \/ Reset
  \/ \E fin \in BOOLEAN, rst \in BOOLEAN, f \in 0..MaxFuse :
        OnDataRead(0, fin, rst, f)
  \/ \E bytes \in 1..MaxLen, f \in 0..MaxFuse : OnDataWritten(bytes, f)
  \/ \E delta \in 1..MaxChunk, f \in 0..MaxFuse : OnSendWindowIncrease(delta, f)
  \/ \E f \in 0..MaxFuse : ClosedByConnection(f)
  \/ RunDeferred

SpecWrite == Init /\ [][NextWrite]_vars

\* The read path: every handler that touches the read buffer, the parked
\* read, receive_window_size_ or window_size_cb_.
NextRead ==
  \/ \E p \in ArgPairs, some \in BOOLEAN : Read(p[1], p[2], some)
  \/ \E new_size \in 0..(maximum_window_size + 1) : AdjustWindowSize(new_size)
  \/ \E new_size \in 0..(maximum_window_size + 1) : AdjustWindowSizeNoCb(new_size)
  \/ \E f \in 0..MaxFuse : CloseNoCb(f)
  \/ Reset
  \/ \E sz \in 0..MaxChunk, fin \in BOOLEAN, rst \in BOOLEAN, f \in 0..MaxFuse :
        OnDataRead(sz, fin, rst, f)
  \/ \E f \in 0..MaxFuse : ClosedByConnection(f)
  \/ RunDeferred

SpecRead == Init /\ [][NextRead]_vars

\* The acknowledgement path: writes, exact reads that park (no data frame
\* arrives), close, the flags of the peer's frames, onDataWritten and
\* onSendWindowIncrease.
NextAck ==
  \/ \E n \in 1..MaxLen : Read(n, n, FALSE)
  \/ \E n \in 1..MaxLen, some \in BOOLEAN : Write(n, n, some)
  \/ \E f \in 0..MaxFuse : Close(f)
  \/ \E fin \in BOOLEAN, rst \in BOOLEAN : OnDataRead(0, fin, rst, 0)
  \/ \E bytes \in 1..MaxLen, f \in 0..MaxFuse : OnDataWritten(bytes, f)
  \/ \E delta \in 1..MaxChunk, f \in 0..MaxFuse : OnSendWindowIncrease(delta, f)
  \/ RunDeferred

SpecAck == Init /\ [][NextAck]_vars


(* ------------------------------ claims --------------------------------- *)

Posted == history.posted
Fired == history.fired

FiredCount(cb) == Cardinality({i \in DOMAIN Fired : Fired[i].cb = cb})

\* what an operation posted on a closed stream is to be told
Expected(cb) ==
  IF Posted[cb].kind = "close" /\ Posted[cb].reason = STREAM_CLOSED_BY_HOST
  THEN Ok(0) ELSE Err(Posted[cb].reason)

\* C1: no client callback runs while the client-invoked method that caused
\* it (read, readSome, write, writeSome, close, reset, adjustWindowSize) is
\* still on the stack; callbacks run later, from the deferred-call queue.
C1_NoCallbackInsideClientCall ==
  \A i \in DOMAIN Fired : ~Fired[i].sync

\* C2: once reset() has been called, no client callback of the stream runs
\* any more, whether its operation was posted before or after the reset.
C2_NoCallbackAfterReset ==
  \A i \in DOMAIN Fired : ~Fired[i].late

\* C3: in every reachable state 0 <= send_window <= max_window and
\* 0 <= recv_window <= max_window.
C3_WindowsWithinMax ==
  /\ stream.send_window_size \in 0..maximum_window_size
  /\ stream.receive_window_size \in 0..maximum_window_size

\* C4: an operation (with valid arguments) posted once close_reason is set
\* changes nothing of the stream but the registration of its delivery, and
\* its callback runs deferred with exactly that close_reason (close: success
\* iff the reason is STREAM_CLOSED_BY_HOST).
C4_ClosedShortCircuits ==
  \A cb \in DOMAIN Posted :
    (Posted[cb].reason # NONE
       /\ (Posted[cb].kind \in {"read", "write"} => Posted[cb].n > 0))
    => /\ ~Posted[cb].touched
       /\ \A i \in DOMAIN Fired :
            Fired[i].cb = cb => Fired[i].res = Expected(cb) /\ ~Fired[i].sync

\* C5: when close(cb1) and then close(cb2) are called on an already closed,
\* not locally reset stream, cb1 and cb2 each run at most once, each with
\* the terminal reason (success for STREAM_CLOSED_BY_HOST), however the calls
\* interleave with the draining of the deferred-call queue; once the queue
\* is drained, each has run exactly once.
C5_CloseIdempotent ==
  \A cb1, cb2 \in DOMAIN Posted :
    (cb1 < cb2
       /\ Posted[cb1].kind = "close" /\ Posted[cb2].kind = "close"
       /\ Posted[cb1].reason # NONE
       /\ Posted[cb2].reason = Posted[cb1].reason
       /\ stream.close_reason = Posted[cb1].reason
       /\ ~history.reset_called)
    => \A cb \in {cb1, cb2} :
         /\ FiredCount(cb) <= 1
         /\ \A i \in DOMAIN Fired :
              Fired[i].cb = cb => Fired[i].res = Expected(cb)
         /\ session.deferred = <<>> => FiredCount(cb) = 1

\* bytes reported by successful read completions (run, or waiting in the
\* deferred-call queue), and bytes lying in the target of the parked read
Reported ==
  SumSeq([i \in DOMAIN Fired |-> Fired[i].res.n])
  + SumSeq([i \in DOMAIN session.deferred |-> session.deferred[i].res.n])

Placed ==
  IF stream.is_reading
  THEN Cardinality({i \in DOMAIN stream.out : stream.out[i] # 0})
  ELSE 0

\* C6: on a stream neither reset nor closed by an error, the bytes reported
\* by successful reads, plus those in the target of the parked read, plus
\* those in the internal read buffer, are the bytes passed to onDataRead.
C6_InboundBytesConserved ==
  (~history.reset_called
     /\ stream.close_reason \in {NONE, STREAM_CLOSED_BY_HOST})
  => Reported + Placed + Len(stream.internal_read_buffer) = history.wire

\* C7: an exact read of n bytes parked with k bytes buffered is complete as
\* soon as n - k further bytes have arrived (so while it is parked on a
\* readable stream fewer have); a successful read runs its callback once,
\* with n (exact) or 1..n (readSome), and its target then holds the next
\* bytes of the inbound stream in wire order.
C7_ReadCompletesInWireOrder ==
  /\ \A cb \in DOMAIN Posted :
       (stream.is_reading /\ stream.read_cb = cb /\ ~stream.reading_some
          /\ stream.is_readable /\ stream.close_reason = NONE)
       => history.wire - Posted[cb].wire < Posted[cb].n - Posted[cb].k
  /\ \A i \in DOMAIN Fired :
       LET p == Posted[Fired[i].cb]
           r == Fired[i].res
       IN (p.kind = "read" /\ r.ec = SUCCESS)
          => /\ FiredCount(Fired[i].cb) = 1
             /\ IF p.some THEN r.n \in 1..p.n ELSE r.n = p.n
             /\ p.data = [j \in 1..r.n |-> p.start + j]

AcceptedWrites ==
  {cb \in DOMAIN Posted : Posted[cb].kind = "write" /\ Posted[cb].accepted}

\* the callbacks of accepted writes, in the order they ran
WriteFirings == SelectSeq(Fired, LAMBDA e : e.cb \in AcceptedWrites)

RECURSIVE SumBytes(_)
SumBytes(S) ==
  IF S = {} THEN 0
  ELSE LET c == CHOOSE x \in S : TRUE IN Posted[c].n + SumBytes(S \ {c})

C9_WindowCallbackFires ==
  \A cb \in DOMAIN Posted :
    (Posted[cb].kind = "window" /\ Posted[cb].accepted
       /\ ~history.reset_called /\ stream.close_reason # NONE
       /\ ~session.routed /\ session.deferred = <<>>)
    => FiredCount(cb) = 1

\* C10: once the client has called close and the peer's FIN was delivered
\* (no reset, no session failure), a stream closed with
\* STREAM_CLOSED_BY_HOST has had every accepted write handed to
\* writeStreamData and streamClosed emitted, each close callback ran with
\* success at most once, and the onDataRead that closed it returned REMOVE.
C10_GracefulShutdown ==
  (history.close_called /\ history.fin_received /\ ~history.reset_called
     /\ stream.close_reason = STREAM_CLOSED_BY_HOST)
  => /\ session.fin >= 1
     /\ session.written = SumBytes(AcceptedWrites)
     /\ \A i \in DOMAIN Fired :
          Posted[Fired[i].cb].kind = "close"
          => Fired[i].res = Ok(0) /\ FiredCount(Fired[i].cb) = 1
     /\ ~session.routed => history.last_ret = kRemoveStream

\* the onDataRead that left more bytes for the client than recv_window
\* closed the stream with RECEIVE_WINDOW_OVERFLOW and asked for an RST
C11_OverflowCloses ==
  (history.over.hit /\ ~history.reset_called)
  => /\ history.over.reason = RECEIVE_WINDOW_OVERFLOW
     /\ history.over.ret = kRemoveStreamAndSendRst

\* a read posted with valid arguments on the stream closed by the overflow
\* is told RECEIVE_WINDOW_OVERFLOW, whether delivered or still deferred
C11_LaterReadsFail ==
  \A cb \in DOMAIN Posted :
    (Posted[cb].kind = "read" /\ Posted[cb].n > 0
       /\ Posted[cb].reason = RECEIVE_WINDOW_OVERFLOW)
    => /\ \A i \in DOMAIN Fired :
            Fired[i].cb = cb => Fired[i].res = Err(RECEIVE_WINDOW_OVERFLOW)
       /\ \A i \in DOMAIN session.deferred :
            session.deferred[i].cb = cb
            => session.deferred[i].res = Err(RECEIVE_WINDOW_OVERFLOW)

\* C11: when onDataRead(bytes, no FIN, no RST) on an open stream leaves more
\* bytes held for the client than recv_window, the stream is closed with
\* RECEIVE_WINDOW_OVERFLOW and the call returns REMOVE_AND_SEND_RST; every
\* read or readSome posted afterwards gets RECEIVE_WINDOW_OVERFLOW, not data.
C11_ReceiveWindowOverflow == C11_OverflowCloses /\ C11_LaterReadsFail

C13_ParkedReadWellFormed ==
  stream.is_reading
  => /\ stream.read_cb # NoCb
     /\ stream.external_read_buffer.len > 0
     /\ stream.read_message_size > 0

\* C14: if close_reason is set, the stream is neither readable nor writable.
C14_ClosedImpliesHalvesClosed ==
  stream.close_reason # NONE => ~stream.is_readable /\ ~stream.is_writable

\* closed by the peer's FIN after the client's close, FIN already sent
C14_Witness ==
  /\ stream.close_reason = STREAM_CLOSED_BY_HOST
  /\ history.fin_received /\ history.close_called
  /\ session.fin > 0
  /\ ~history.reset_called

\* C15: once close_reason is set, no later operation changes it to a
\* different value.
C15_CloseReasonSticky ==
  [][stream.close_reason # NONE
       => stream'.close_reason = stream.close_reason]_vars

\* C20: no state is reachable in which the stream is closed, not locally
\* reset, and a read is still parked (its callback was fired when the stream
\* closed); nor one in which the peer's FIN has made the stream unreadable
\* and a read is still parked.
C20_NoReadParkedForever ==
  ~history.reset_called
  => /\ stream.close_reason # NONE => ~stream.is_reading
     /\ (history.fin_received /\ ~stream.is_readable) => ~stream.is_reading

\* bytes of the inbound stream that have left for a client buffer (the
\* buffer of a readable stream is never dropped)
Moved == history.wire - Len(stream.internal_read_buffer)

\* C16: while the stream is readable, a step that moves bytes into a client
\* buffer (read fast path, park path, onDataRead into the parked target)
\* acknowledges exactly those bytes through ackReceivedBytes and raises
\* recv_window by the same amount at the same step.
C16_ReplenishMatchesConsumption ==
  [][(stream.is_readable /\ stream'.is_readable
        /\ stream'.close_reason = NONE /\ Moved' # Moved)
     => /\ session'.acks - session.acks = Moved' - Moved
        /\ stream'.receive_window_size - stream.receive_window_size
             = Moved' - Moved]_vars

\* C17: a read or readSome with valid arguments posted on a stream
\* half-closed for reading (FIN received, not closed, nothing parked, too
\* little buffered) leaves the stream unchanged and has STREAM_NOT_READABLE
\* delivered, deferred, to the callback of that call, exactly once (so it
\* has run once the deferred-call queue is drained, unless reset() cut it).
C17_HalfClosedReadReported ==
  \A cb \in DOMAIN Posted :
    Posted[cb].half
    => /\ ~Posted[cb].touched
       /\ FiredCount(cb) <= 1
       /\ \A i \in DOMAIN Fired :
            Fired[i].cb = cb
            => Fired[i].res = Err(STREAM_NOT_READABLE) /\ ~Fired[i].sync
       /\ (session.deferred = <<>> /\ ~history.reset_called)
          => FiredCount(cb) = 1

\* the callbacks that ran in this step
NewFirings == SubSeq(Fired', Len(Fired) + 1, Len(Fired'))

GotInternalError(cb) ==
  \E i \in DOMAIN NewFirings :
    NewFirings[i].cb = cb /\ NewFirings[i].res = Err(INTERNAL_ERROR)

\* C18: an onDataWritten(n) with n above the bytes in flight requests
\* resetStream, sets close_reason to INTERNAL_ERROR, leaves the stream neither
\* readable nor writable, and hands INTERNAL_ERROR to the parked read, the
\* pending close and every write still queued (unless one of those callbacks
\* calls reset()); an onDataWritten(n) with n within the bytes in flight
\* does not close the stream.
C18_AckMismatchResets ==
  [][(history'.ackd.n > 0 /\ ~history'.reset_called)
     => IF history'.ackd.n > history'.ackd.inflight
        THEN /\ ~session.rst /\ session'.rst
             /\ stream'.close_reason = INTERNAL_ERROR
             /\ ~stream'.is_readable /\ ~stream'.is_writable
             /\ ~stream'.is_reading /\ stream'.write_queue = <<>>
             /\ (stream.is_reading /\ stream.read_cb # NoCb)
                => GotInternalError(stream.read_cb)
             /\ stream.close_cb # NoCb => GotInternalError(stream.close_cb)
             /\ \A i \in DOMAIN stream.write_queue :
                  GotInternalError(stream.write_queue[i].cb)
        ELSE /\ stream'.close_reason = stream.close_reason
             /\ session'.rst = session.rst /\ session'.routed]_vars

\* an acknowledgement beyond the bytes in flight met two pending operations
\* of different kinds (of a parked read, a pending close, a queued write),
\* and both were told INTERNAL_ERROR
C18_Witness ==
  /\ history.ackd.n > history.ackd.inflight
  /\ stream.close_reason = INTERNAL_ERROR
  /\ ~history.reset_called
  /\ \E a, b \in DOMAIN Posted :
       /\ Posted[a].kind # Posted[b].kind
       /\ \A cb \in {a, b} :
            \E i \in DOMAIN Fired :
              Fired[i].cb = cb /\ Fired[i].res = Err(INTERNAL_ERROR)

\* C19: streamClosed is emitted at most once, only after the client called
\* close(), only when every accepted write byte has been handed to
\* writeStreamData, and no writeStreamData is emitted after it.
C19_FinOnceAndLast ==
  /\ session.fin <= 1
  /\ session.fin >= 1
     => /\ history.close_called
        /\ session.written = SumBytes(AcceptedWrites)
  /\ ~history.after_fin

=============================================================================
